---- MODULE Spec2Model ----
(***************************************************************************)
(* submit_application.py: one signed job-application submission.          *)
(*                                                                         *)
(* The script is a straight line of module-level statements.  Each action  *)
(* below is one section of the script; pc is the section about to run.     *)
(*                                                                         *)
(* Text (Python str) is a sequence of Unicode code points, bytes a         *)
(* sequence of 0..255.  A lone surrogate (55296..57343) can occur in text  *)
(* read from os.environ (surrogateescape) and cannot be encoded as UTF-8.  *)
(***************************************************************************)
EXTENDS Integers, Sequences, FiniteSets, TLC

VARIABLES
    pc,               \* the section of the script about to run
    environ,          \* os.environ: a function from the names present to text
    SIGNING_SECRET,   \* line 31
    timestamp,        \* lines 36-40
    payload,          \* lines 45-52: the dict, as its items in insertion order
    canonical_json,   \* lines 57-62
    digest,           \* lines 67-71
    signature_header, \* line 73
    request,          \* lines 78-86
    wire,             \* the requests urlopen has put on the network, in order
    response,         \* what the exchange of line 89 ended with
    response_body,    \* line 90
    parsed,           \* line 102
    stdout,           \* lines printed on standard output
    stderr,           \* lines printed on the error stream
    exit_status       \* the process's exit status, NotExited while it runs

vars ==
    << pc, environ, SIGNING_SECRET, timestamp, payload, canonical_json, digest,
       signature_header, request, wire, response, response_body, parsed,
       stdout, stderr, exit_status >>

----------------------------------------------------------------------------
(* Bounds of the model.                                                    *)

\* the longest value an environment variable takes
MaxValueLen == 1

----------------------------------------------------------------------------
(* Text and bytes.                                                         *)

Ok(v) == [ok |-> TRUE, val |-> v]

Err(e) == [ok |-> FALSE, val |-> e]

\* F(value), with value computed once: a local variable of the code
Bind(value, F(_)) == CHOOSE result \in {F(x) : x \in {value}} : TRUE

IsSurrogate(c) == c >= 55296 /\ c <= 57343

\* str.encode("utf-8") of one code point
Utf8EncodeChar(c) ==
    IF c < 128 THEN << c >>
    ELSE IF c < 2048 THEN << 192 + (c \div 64), 128 + (c % 64) >>
    ELSE IF c < 65536
         THEN << 224 + (c \div 4096), 128 + ((c \div 64) % 64), 128 + (c % 64) >>
    ELSE << 240 + (c \div 262144), 128 + ((c \div 4096) % 64),
            128 + ((c \div 64) % 64), 128 + (c % 64) >>

\* the encoding of s[lo..hi], by halves
RECURSIVE Utf8EncodeRange(_, _, _)
Utf8EncodeRange(s, lo, hi) ==
    IF lo > hi THEN << >>
    ELSE IF lo = hi THEN Utf8EncodeChar(s[lo])
    ELSE LET mid == (lo + hi) \div 2
         IN  Utf8EncodeRange(s, lo, mid) \o Utf8EncodeRange(s, mid + 1, hi)

\* str.encode("utf-8"): the bytes, or UnicodeEncodeError on a lone surrogate
Utf8Encode(s) ==
    IF \E i \in 1..Len(s) : IsSurrogate(s[i])
    THEN Err("UnicodeEncodeError")
    ELSE Ok(Utf8EncodeRange(s, 1, Len(s)))

IsCont(b, i) == i <= Len(b) /\ b[i] >= 128 /\ b[i] <= 191

\* the code point of the well-formed UTF-8 sequence at b[i], as
\* [ok, val, next]; overlong forms, surrogates and values past U+10FFFF are
\* rejected as the strict utf-8 codec rejects them
Utf8DecodeChar(b, i) ==
    LET c == b[i] IN
    IF c < 128 THEN [ok |-> TRUE, val |-> c, next |-> i + 1]
    ELSE IF c >= 194 /\ c <= 223 /\ IsCont(b, i + 1)
         THEN [ok |-> TRUE, val |-> (c - 192) * 64 + (b[i + 1] - 128), next |-> i + 2]
    ELSE IF c >= 224 /\ c <= 239 /\ IsCont(b, i + 1) /\ IsCont(b, i + 2)
            /\ (c = 224 => b[i + 1] >= 160) /\ (c = 237 => b[i + 1] <= 159)
         THEN [ok |-> TRUE,
               val |-> (c - 224) * 4096 + (b[i + 1] - 128) * 64 + (b[i + 2] - 128),
               next |-> i + 3]
    ELSE IF c >= 240 /\ c <= 244 /\ IsCont(b, i + 1) /\ IsCont(b, i + 2)
            /\ IsCont(b, i + 3)
            /\ (c = 240 => b[i + 1] >= 144) /\ (c = 244 => b[i + 1] <= 143)
         THEN [ok |-> TRUE,
               val |-> (c - 240) * 262144 + (b[i + 1] - 128) * 4096
                       + (b[i + 2] - 128) * 64 + (b[i + 3] - 128),
               next |-> i + 4]
    ELSE [ok |-> FALSE, val |-> 0, next |-> i]

\* the indices of b at which a character starts (UTF-8 is self-synchronizing:
\* a byte of 128..191 never starts one)
Utf8Starts(b) ==
    SelectSeq([i \in 1..Len(b) |-> i], LAMBDA i : b[i] < 128 \/ b[i] > 191)

\* b[i] continues a well-formed character that starts at most 3 bytes before
Utf8Continues(b, i) ==
    \E k \in 1..(i - 1) :
       /\ i - k <= 3
       /\ b[k] > 191
       /\ Utf8DecodeChar(b, k).ok
       /\ Utf8DecodeChar(b, k).next > i

\* bytes.decode("utf-8"): the text, or UnicodeDecodeError
Utf8Decode(b) ==
    IF \A i \in 1..Len(b) :
          IF b[i] < 128 \/ b[i] > 191 THEN Utf8DecodeChar(b, i).ok
          ELSE Utf8Continues(b, i)
    THEN Bind(Utf8Starts(b), LAMBDA starts :
            Ok([n \in 1..Len(starts) |-> Utf8DecodeChar(b, starts[n]).val]))
    ELSE Err("UnicodeDecodeError")

\* a < b in Python's str ordering (code point by code point, prefix first)
RECURSIVE StrLessFrom(_, _, _)
StrLessFrom(a, b, i) ==
    IF i > Len(b) THEN FALSE
    ELSE IF i > Len(a) THEN TRUE
    ELSE IF a[i] # b[i] THEN a[i] < b[i]
    ELSE StrLessFrom(a, b, i + 1)

StrLess(a, b) == StrLessFrom(a, b, 1)

\* whether s has sub at position i
HasAt(s, sub, i) ==
    /\ i + Len(sub) - 1 <= Len(s)
    /\ \A k \in 1..Len(sub) : s[i + k - 1] = sub[k]

\* str.replace(old, new), old non-empty: leftmost non-overlapping occurrences
RECURSIVE ReplaceFrom(_, _, _, _)
ReplaceFrom(s, old, new, i) ==
    IF i > Len(s) THEN << >>
    ELSE IF HasAt(s, old, i) THEN new \o ReplaceFrom(s, old, new, i + Len(old))
    ELSE << s[i] >> \o ReplaceFrom(s, old, new, i + 1)

Replace(s, old, new) == ReplaceFrom(s, old, new, 1)

\* the decimal digits of n >= 0, zero-padded to at least width characters
RECURSIVE Digits(_, _)
Digits(n, width) ==
    IF n < 10 /\ width <= 1 THEN << 48 + n >>
    ELSE Append(Digits(n \div 10, width - 1), 48 + (n % 10))

\* sep.join(parts) of a list of strings, as the list of its pieces
RECURSIVE Join(_, _)
Join(sep, parts) ==
    IF Len(parts) = 0 THEN << >>
    ELSE IF Len(parts) = 1 THEN parts
    ELSE << Head(parts), sep >> \o Join(sep, Tail(parts))

----------------------------------------------------------------------------
(* json.dumps of a dict of str to str, as line 57 calls it.                *)

HexDigit(n) == IF n < 10 THEN 48 + n ELSE 87 + n

\* json.encoder's ESCAPE_DCT: what one character of a string is written as
\* under ensure_ascii=False
EscapeChar(c) ==
    IF c = 34 THEN << 92, 34 >>
    ELSE IF c = 92 THEN << 92, 92 >>
    ELSE IF c = 10 THEN << 92, 110 >>
    ELSE IF c = 13 THEN << 92, 114 >>
    ELSE IF c = 9 THEN << 92, 116 >>
    ELSE IF c = 12 THEN << 92, 102 >>
    ELSE IF c = 8 THEN << 92, 98 >>
    ELSE IF c < 32 THEN << 92, 117, 48, 48, HexDigit(c \div 16), HexDigit(c % 16) >>
    ELSE << c >>

\* the escaped form of s[lo..hi], by halves
RECURSIVE EscapeRange(_, _, _)
EscapeRange(s, lo, hi) ==
    IF lo > hi THEN << >>
    ELSE IF lo = hi THEN EscapeChar(s[lo])
    ELSE LET mid == (lo + hi) \div 2
         IN  EscapeRange(s, lo, mid) \o EscapeRange(s, mid + 1, hi)

\* a str as a JSON string literal
DumpsStr(s) == << 34 >> \o EscapeRange(s, 1, Len(s)) \o << 34 >>

\* whether items[k] comes before items[j] in sorted(dct.items()): by key,
\* and by position for equal keys (sorted() is stable)
ItemBefore(items, k, j) ==
    \/ StrLess(items[k][1], items[j][1])
    \/ ~StrLess(items[j][1], items[k][1]) /\ k < j

\* sorted(dct.items()): the item at each rank is the one with that many
\* items before it
SortItems(items) ==
    [rank \in 1..Len(items) |->
       items[CHOOSE j \in 1..Len(items) :
               Cardinality({k \in 1..Len(items) : ItemBefore(items, k, j)})
               = rank - 1]]

\* the items from the i-th on, each as "key":"value", joined
RECURSIVE DumpsItems(_, _, _, _)
DumpsItems(items, i, item_separator, key_separator) ==
    IF i > Len(items) THEN << >>
    ELSE DumpsStr(items[i][1]) \o key_separator \o DumpsStr(items[i][2])
         \o (IF i = Len(items) THEN << >> ELSE item_separator)
         \o DumpsItems(items, i + 1, item_separator, key_separator)

\* json.dumps(dct, separators=(item_separator, key_separator), sort_keys=...,
\* ensure_ascii=False)
JsonDumps(dct, item_separator, key_separator, sort_keys) ==
    Bind(IF sort_keys THEN SortItems(dct) ELSE dct, LAMBDA items :
       << 123 >> \o DumpsItems(items, 1, item_separator, key_separator)
       \o << 125 >>)

----------------------------------------------------------------------------
(* json.loads, as line 102 calls it.  The values it builds:                *)

PyNone == [t |-> "NoneType", v |-> << >>]

PyBool(b) == [t |-> "bool", v |-> b]

\* an int or float, kept as the text of its literal
PyNum(lexeme) == [t |-> "number", v |-> lexeme]

\* float("nan"), float("inf"), float("-inf"), by the name json spells them
PyFloatConst(name) == [t |-> "float", v |-> name]

PyStr(s) == [t |-> "str", v |-> s]

PyList(elems) == [t |-> "list", v |-> elems]

\* a dict, as its items << key, value >> in insertion order
PyDict(items) == [t |-> "dict", v |-> items]

\* dct[key] = value: a key already present keeps its place
DictSet(items, key, value) ==
    IF \E i \in 1..Len(items) : items[i][1] = key
    THEN [i \in 1..Len(items) |->
            IF items[i][1] = key THEN << key, value >> ELSE items[i]]
    ELSE Append(items, << key, value >>)

\* key in dct
DictHas(d, key) == \E i \in 1..Len(d.v) : d.v[i][1] = key

\* dct.get(key): the value, or None
DictGet(d, key) ==
    IF DictHas(d, key)
    THEN d.v[CHOOSE i \in 1..Len(d.v) : d.v[i][1] = key][2]
    ELSE PyNone

Parsed(v, next) == [ok |-> TRUE, val |-> v, next |-> next]

NoParse == [ok |-> FALSE, val |-> PyNone, next |-> 0]

IsWhitespace(c) == c \in {32, 9, 10, 13}

IsDigit(c) == c >= 48 /\ c <= 57

RECURSIVE SkipWhitespace(_, _)
SkipWhitespace(s, i) ==
    IF i <= Len(s) /\ IsWhitespace(s[i]) THEN SkipWhitespace(s, i + 1) ELSE i

RECURSIVE SkipDigits(_, _)
SkipDigits(s, i) ==
    IF i <= Len(s) /\ IsDigit(s[i]) THEN SkipDigits(s, i + 1) ELSE i

DigitAt(s, i) == i <= Len(s) /\ IsDigit(s[i])

\* json.decoder's BACKSLASH table: the character a simple escape stands for,
\* 0 for a character that is no simple escape
Unescape(c) ==
    IF c \in {34, 92, 47} THEN c
    ELSE IF c = 98 THEN 8
    ELSE IF c = 102 THEN 12
    ELSE IF c = 110 THEN 10
    ELSE IF c = 114 THEN 13
    ELSE IF c = 116 THEN 9
    ELSE 0

\* scanstring, strict: the string whose opening quote is before s[i].  The
\* \uXXXX escape is not modelled: no response body of the model holds one.
RECURSIVE ScanString(_, _, _)
ScanString(s, i, acc) ==
    IF i > Len(s) THEN NoParse
    ELSE IF s[i] = 34 THEN Parsed(acc, i + 1)
    ELSE IF s[i] = 92
         THEN IF i + 1 <= Len(s) /\ Unescape(s[i + 1]) # 0
              THEN ScanString(s, i + 2, Append(acc, Unescape(s[i + 1])))
              ELSE NoParse
    ELSE IF s[i] < 32 THEN NoParse
    ELSE ScanString(s, i + 1, Append(acc, s[i]))

\* NUMBER_RE, (-?(?:0|[1-9][0-9]*))(\.[0-9]+)?([eE][-+]?[0-9]+)?, matched at s[i]:
\* the index after the integer part that starts at s[int]
AfterInt(s, int) == IF s[int] = 48 THEN int + 1 ELSE SkipDigits(s, int)

\* the index after the optional fraction at s[frac]
AfterFrac(s, frac) ==
    IF frac <= Len(s) /\ s[frac] = 46 /\ DigitAt(s, frac + 1)
    THEN SkipDigits(s, frac + 1) ELSE frac

\* the index after the optional exponent at s[exp]
AfterExp(s, exp) ==
    Bind(IF exp + 1 <= Len(s) /\ s[exp + 1] \in {43, 45} THEN exp + 2 ELSE exp + 1,
         LAMBDA digits :
            IF exp <= Len(s) /\ s[exp] \in {101, 69} /\ DigitAt(s, digits)
            THEN SkipDigits(s, digits) ELSE exp)

MatchNumber(s, i) ==
    Bind(IF s[i] = 45 THEN i + 1 ELSE i, LAMBDA int :
       IF ~DigitAt(s, int) THEN NoParse
       ELSE Bind(AfterInt(s, int), LAMBDA frac :
            Bind(AfterFrac(s, frac), LAMBDA exp :
            Bind(AfterExp(s, exp), LAMBDA end :
               Parsed(PyNum(SubSeq(s, i, end - 1)), end)))))

\* the words the scanner knows, as code points
WordNull == << 110, 117, 108, 108 >>

WordTrue == << 116, 114, 117, 101 >>

WordFalse == << 102, 97, 108, 115, 101 >>

WordNaN == << 78, 97, 78 >>

WordInfinity == << 73, 110, 102, 105, 110, 105, 116, 121 >>

WordMinusInfinity == << 45 >> \o WordInfinity

RECURSIVE ScanOnce(_, _)
RECURSIVE ParseArrayFrom(_, _, _)
RECURSIVE ParseObjectFrom(_, _, _)
RECURSIVE ParseObjectValue(_, _, _, _)

\* JSONArray after its first value's position is known: s[i] starts a value
ParseArrayFrom(s, i, acc) ==
    Bind(ScanOnce(s, i), LAMBDA value :
       IF ~value.ok THEN NoParse
       ELSE Bind(SkipWhitespace(s, value.next), LAMBDA end :
               IF end > Len(s) THEN NoParse
               ELSE IF s[end] = 93
                    THEN Parsed(PyList(Append(acc, value.val)), end + 1)
               ELSE IF s[end] = 44
                    THEN Bind(SkipWhitespace(s, end + 1), LAMBDA nextv :
                            ParseArrayFrom(s, nextv, Append(acc, value.val)))
               ELSE NoParse))

\* JSONArray: the array whose [ is before s[i]
ParseArray(s, i) ==
    Bind(SkipWhitespace(s, i), LAMBDA end :
       IF end <= Len(s) /\ s[end] = 93 THEN Parsed(PyList(<< >>), end + 1)
       ELSE ParseArrayFrom(s, end, << >>))

\* after a key and its colon: the value at s[i], then } or , and the next key
ParseObjectValue(s, i, acc, key) ==
    Bind(ScanOnce(s, i), LAMBDA value :
       IF ~value.ok THEN NoParse
       ELSE Bind(SkipWhitespace(s, value.next), LAMBDA end :
            Bind(DictSet(acc, key, value.val), LAMBDA pairs :
               IF end > Len(s) THEN NoParse
               ELSE IF s[end] = 125 THEN Parsed(PyDict(pairs), end + 1)
               ELSE IF s[end] = 44
                    THEN Bind(SkipWhitespace(s, end + 1), LAMBDA nextk :
                            IF nextk <= Len(s) /\ s[nextk] = 34
                            THEN ParseObjectFrom(s, nextk + 1, pairs)
                            ELSE NoParse)
               ELSE NoParse)))

\* JSONObject inside its braces: the opening quote of a key is before s[i]
ParseObjectFrom(s, i, acc) ==
    Bind(ScanString(s, i, << >>), LAMBDA key :
       IF ~key.ok THEN NoParse
       ELSE Bind(SkipWhitespace(s, key.next), LAMBDA colon :
               IF colon > Len(s) THEN NoParse
               ELSE IF s[colon] # 58 THEN NoParse
               ELSE Bind(SkipWhitespace(s, colon + 1), LAMBDA start :
                       ParseObjectValue(s, start, acc, key.val))))

\* JSONObject: the object whose { is before s[i]
ParseObject(s, i) ==
    Bind(SkipWhitespace(s, i), LAMBDA end :
       IF end > Len(s) THEN NoParse
       ELSE IF s[end] = 125 THEN Parsed(PyDict(<< >>), end + 1)
       ELSE IF s[end] = 34 THEN ParseObjectFrom(s, end + 1, << >>)
       ELSE NoParse)

\* json.scanner's scan_once: the value that starts at s[i]
ScanOnce(s, i) ==
    IF i > Len(s) THEN NoParse
    ELSE IF s[i] = 34
         THEN Bind(ScanString(s, i + 1, << >>), LAMBDA str :
                 IF str.ok THEN Parsed(PyStr(str.val), str.next) ELSE NoParse)
    ELSE IF s[i] = 123 THEN ParseObject(s, i + 1)
    ELSE IF s[i] = 91 THEN ParseArray(s, i + 1)
    ELSE IF HasAt(s, WordNull, i) THEN Parsed(PyNone, i + 4)
    ELSE IF HasAt(s, WordTrue, i) THEN Parsed(PyBool(TRUE), i + 4)
    ELSE IF HasAt(s, WordFalse, i) THEN Parsed(PyBool(FALSE), i + 5)
    ELSE Bind(MatchNumber(s, i), LAMBDA number :
            IF number.ok THEN number
            ELSE IF HasAt(s, WordNaN, i) THEN Parsed(PyFloatConst("NaN"), i + 3)
            ELSE IF HasAt(s, WordInfinity, i)
                 THEN Parsed(PyFloatConst("Infinity"), i + 8)
            ELSE IF HasAt(s, WordMinusInfinity, i)
                 THEN Parsed(PyFloatConst("-Infinity"), i + 9)
            ELSE NoParse)

\* json.loads(s) of a str: the value, or JSONDecodeError
JsonLoads(s) ==
    IF Len(s) > 0 /\ s[1] = 65279 THEN Err("JSONDecodeError")
    ELSE Bind(ScanOnce(s, SkipWhitespace(s, 1)), LAMBDA value :
            IF ~value.ok THEN Err("JSONDecodeError")
            ELSE IF SkipWhitespace(s, value.next) # Len(s) + 1
                 THEN Err("JSONDecodeError")
            ELSE Ok(value.val))

----------------------------------------------------------------------------
(* The script's literals.                                                  *)

B12_ENDPOINT == "https://b12.io/apply/submission"

required_env_vars == << "B12_SIGNING_SECRET", "GITHUB_RUN_URL" >>

\* "timestamp"
KEY_TIMESTAMP ==
    <<116, 105, 109, 101, 115, 116, 97, 109, 112>>
\* "name"
KEY_NAME ==
    <<110, 97, 109, 101>>
\* "email"
KEY_EMAIL ==
    <<101, 109, 97, 105, 108>>
\* "resume_link"
KEY_RESUME_LINK ==
    <<114, 101, 115, 117, 109, 101, 95, 108, 105, 110, 107>>
\* "repository_link"
KEY_REPOSITORY_LINK ==
    <<114, 101, 112, 111, 115, 105, 116, 111, 114, 121, 95, 108, 105, 110, 107>>
\* "action_run_link"
KEY_ACTION_RUN_LINK ==
    <<97, 99, 116, 105, 111, 110, 95, 114, 117, 110, 95, 108, 105, 110, 107>>
\* "James Thomas"
NAME ==
    <<74, 97, 109, 101, 115, 32, 84, 104, 111, 109, 97, 115>>
\* "jamesjacobthomas7@gmail.com"
EMAIL ==
    <<106, 97, 109, 101, 115, 106, 97, 99, 111, 98, 116, 104, 111, 109, 97, 115, 55, 64,
    103, 109, 97, 105, 108, 46, 99, 111, 109>>
\* "https://www.linkedin.com/in/james-thomas007/"
RESUME_LINK ==
    <<104, 116, 116, 112, 115, 58, 47, 47, 119, 119, 119, 46, 108, 105, 110, 107, 101,
    100, 105, 110, 46, 99, 111, 109, 47, 105, 110, 47, 106, 97, 109, 101, 115, 45, 116,
    104, 111, 109, 97, 115, 48, 48, 55, 47>>
\* "https://github.com/jtx007/b12-application"
REPOSITORY_LINK ==
    <<104, 116, 116, 112, 115, 58, 47, 47, 103, 105, 116, 104, 117, 98, 46, 99, 111, 109,
    47, 106, 116, 120, 48, 48, 55, 47, 98, 49, 50, 45, 97, 112, 112, 108, 105, 99, 97,
    116, 105, 111, 110>>
\* "success"
KEY_SUCCESS ==
    <<115, 117, 99, 99, 101, 115, 115>>
\* "receipt"
KEY_RECEIPT ==
    <<114, 101, 99, 101, 105, 112, 116>>
\* "+00:00"
UTC_OFFSET ==
    <<43, 48, 48, 58, 48, 48>>
\* "Z"
ZULU ==
    <<90>>

----------------------------------------------------------------------------
(* What the script meets from outside: the environment, the clock and the  *)
(* far end of the HTTP exchange.                                           *)

\* the characters environment values are made of: a quote (which json.dumps
\* escapes), e-acute (two bytes of UTF-8) and the lone surrogate U+DCBF that
\* os.environ holds for an undecodable byte
EnvAlphabet == {34, 233, 56511}

EnvValues == UNION {[1..n -> EnvAlphabet] : n \in 0..MaxValueLen}

\* every os.environ over the two names the script reads
Environments ==
    UNION {[names -> EnvValues] :
             names \in SUBSET {required_env_vars[i] : i \in 1..Len(required_env_vars)}}

\* the instants datetime.now(timezone.utc) returns
Instants ==
    { [year |-> 2026, month |-> 1, day |-> 2, hour |-> 3, minute |-> 4,
       second |-> 5, microsecond |-> 6789],
      [year |-> 2026, month |-> 11, day |-> 30, hour |-> 23, minute |-> 59,
       second |-> 59, microsecond |-> 999999] }

\* status codes urlopen returns a response for
SuccessStatuses == {200, 201}

\* status codes urlopen raises HTTPError for
ErrorStatuses == {404, 500}

\* bodies of an error response: "server error", undecodable bytes, nothing
ErrorBodies ==
    { <<115, 101, 114, 118, 101, 114, 32, 101, 114, 114, 111, 114>>,
      <<254, 255>>,
      << >> }

\* str(e) of the other exceptions urlopen and read raise
TransportErrors ==
    { "<urlopen error [Errno -2] Name or service not known>",
      "<urlopen error [Errno 111] Connection refused>",
      "timed out" }

\* bodies of a 2xx response
ResponseBodies ==
    {
      \* {"success": true, "receipt": "R123"}
      <<123, 34, 115, 117, 99, 99, 101, 115, 115, 34, 58, 32, 116, 114, 117, 101, 44, 32, 34, 114, 101, 99, 101, 105, 112, 116, 34, 58, 32, 34, 82, 49, 50, 51, 34, 125>>,
      \* {"receipt":7,"success":true}
      <<123, 34, 114, 101, 99, 101, 105, 112, 116, 34, 58, 55, 44, 34, 115, 117, 99, 99, 101, 115, 115, 34, 58, 116, 114, 117, 101, 125>>,
      \* {"success": true}
      <<123, 34, 115, 117, 99, 99, 101, 115, 115, 34, 58, 32, 116, 114, 117, 101, 125>>,
      \* {"success": false, "receipt": "R123"}
      <<123, 34, 115, 117, 99, 99, 101, 115, 115, 34, 58, 32, 102, 97, 108, 115, 101, 44, 32, 34, 114, 101, 99, 101, 105, 112, 116, 34, 58, 32, 34, 82, 49, 50, 51, 34, 125>>,
      \* {"success": false}
      <<123, 34, 115, 117, 99, 99, 101, 115, 115, 34, 58, 32, 102, 97, 108, 115, 101, 125>>,
      \* {"success": 1, "receipt": "R123"}
      <<123, 34, 115, 117, 99, 99, 101, 115, 115, 34, 58, 32, 49, 44, 32, 34, 114, 101, 99, 101, 105, 112, 116, 34, 58, 32, 34, 82, 49, 50, 51, 34, 125>>,
      \* {"success": "yes", "receipt": "R123"}
      <<123, 34, 115, 117, 99, 99, 101, 115, 115, 34, 58, 32, 34, 121, 101, 115, 34, 44, 32, 34, 114, 101, 99, 101, 105, 112, 116, 34, 58, 32, 34, 82, 49, 50, 51, 34, 125>>,
      \* {"success": true, "success": 0, "receipt": "R"}
      <<123, 34, 115, 117, 99, 99, 101, 115, 115, 34, 58, 32, 116, 114, 117, 101, 44, 32, 34, 115, 117, 99, 99, 101, 115, 115, 34, 58, 32, 48, 44, 32, 34, 114, 101, 99, 101, 105, 112, 116, 34, 58, 32, 34, 82, 34, 125>>,
      \* {"receipt": "R\xc3\xa9"}
      <<123, 34, 114, 101, 99, 101, 105, 112, 116, 34, 58, 32, 34, 82, 195, 169, 34, 125>>,
      \* {}
      <<123, 125>>,
      \*  {"success":true,"receipt":[1,{"a":null}]} 
      <<32, 123, 34, 115, 117, 99, 99, 101, 115, 115, 34, 58, 116, 114, 117, 101, 44, 34, 114, 101, 99, 101, 105, 112, 116, 34, 58, 91, 49, 44, 123, 34, 97, 34, 58, 110, 117, 108, 108, 125, 93, 125, 32>>,
      \* []
      <<91, 93>>,
      \* [true]
      <<91, 116, 114, 117, 101, 93>>,
      \* "R123"
      <<34, 82, 49, 50, 51, 34>>,
      \* 7
      <<55>>,
      \* -1.5e3
      <<45, 49, 46, 53, 101, 51>>,
      \* null
      <<110, 117, 108, 108>>,
      \* true
      <<116, 114, 117, 101>>,
      \* NaN
      <<78, 97, 78>>,
      \* 
      <<>>,
      \* not json
      <<110, 111, 116, 32, 106, 115, 111, 110>>,
      \* {"success": true, "receipt": "R123"
      <<123, 34, 115, 117, 99, 99, 101, 115, 115, 34, 58, 32, 116, 114, 117, 101, 44, 32, 34, 114, 101, 99, 101, 105, 112, 116, 34, 58, 32, 34, 82, 49, 50, 51, 34>>,
      \* {"success": true,}
      <<123, 34, 115, 117, 99, 99, 101, 115, 115, 34, 58, 32, 116, 114, 117, 101, 44, 125>>,
      \* [1,]
      <<91, 49, 44, 93>>,
      \* {"a" 1}
      <<123, 34, 97, 34, 32, 49, 125>>,
      \* "a\\qb"
      <<34, 97, 92, 113, 98, 34>>,
      \* 01
      <<48, 49>>,
      \* {"success": true} x
      <<123, 34, 115, 117, 99, 99, 101, 115, 115, 34, 58, 32, 116, 114, 117, 101, 125, 32, 120>>,
      \* \xff
      <<255>>,
      \* {"receipt": "\xe9"}
      <<123, 34, 114, 101, 99, 101, 105, 112, 116, 34, 58, 32, 34, 233, 34, 125>>,
      \* \xef\xbb\xbf{}
      <<239, 187, 191, 123, 125>>
    }

----------------------------------------------------------------------------
(* The pieces of the script's statements.                                  *)

\* one print call: the leading literal and the values printed after it
Line(label, args) == [label |-> label, args |-> args]

\* the names not in os.environ, in the order of required_env_vars (first a
\* faulty variant that stops at the first)
missing_first_only(env) ==
    LET all == SelectSeq(required_env_vars, LAMBDA v : v \notin DOMAIN env)
    IN  IF Len(all) = 0 THEN all ELSE << Head(all) >>

missing(env) == SelectSeq(required_env_vars, LAMBDA v : v \notin DOMAIN env)

\* datetime.isoformat(timespec="milliseconds") of an aware UTC datetime
IsoFormat(dt) ==
    Digits(dt.year, 4) \o << 45 >> \o Digits(dt.month, 2) \o << 45 >>
    \o Digits(dt.day, 2) \o << 84 >> \o Digits(dt.hour, 2) \o << 58 >>
    \o Digits(dt.minute, 2) \o << 58 >> \o Digits(dt.second, 2) \o << 46 >>
    \o Digits(dt.microsecond \div 1000, 3) \o UTC_OFFSET

\* hmac.new(key, msg, hashlib.sha256).hexdigest(), kept symbolic: the digest
\* is the pair it was computed from, so two digests are equal exactly when
\* their keys and messages are
HmacSha256Hex(key, msg) == [alg |-> "sha256", key |-> key, msg |-> msg]

NoDigest == [alg |-> "", key |-> << >>, msg |-> << >>]

NoHeader == [prefix |-> "", digest |-> NoDigest]

NoRequest == [url |-> "", data |-> << >>, headers |-> << >>, method |-> ""]

NoResponse == [kind |-> "none", code |-> 0, body |-> << >>, reason |-> ""]

Unset == [t |-> "unset", v |-> << >>]

\* parsed.get("success") is True and "receipt" in parsed, parsed a dict (first
\* a faulty variant with the two keys swapped)
SuccessCondition_swapped(p) ==
    /\ DictHas(p, KEY_SUCCESS)
    /\ DictGet(p, KEY_RECEIPT).t = "bool"
    /\ DictGet(p, KEY_RECEIPT).v = TRUE

SuccessCondition(p) ==
    /\ DictGet(p, KEY_SUCCESS).t = "bool"
    /\ DictGet(p, KEY_SUCCESS).v = TRUE
    /\ DictHas(p, KEY_RECEIPT)

\* print(..., file=sys.stderr); sys.exit(1) (first a faulty variant
\* that calls sys.exit() with no status, which exits 0)
PrintErrAndExit_nostatus(line) ==
    /\ stderr' = Append(stderr, line)
    /\ exit_status' = << 0 >>
    /\ pc' = "Failed"
    /\ UNCHANGED stdout

PrintErrAndExit(line) ==
    /\ stderr' = Append(stderr, line)
    /\ exit_status' = << 1 >>
    /\ pc' = "Failed"
    /\ UNCHANGED stdout

\* an exception no handler catches: the interpreter prints the traceback on
\* the error stream and exits with status 1
Uncaught(exception) ==
    /\ stderr' = Append(stderr, Line("Traceback (most recent call last):",
                                     << exception >>))
    /\ exit_status' = << 1 >>
    /\ pc' = "Failed"
    /\ UNCHANGED stdout

----------------------------------------------------------------------------
(* The script.                                                             *)

Init ==
    /\ pc = "validate"
    /\ environ \in Environments
    /\ SIGNING_SECRET = << >>
    /\ timestamp = << >>
    /\ payload = << >>
    /\ canonical_json = << >>
    /\ digest = NoDigest
    /\ signature_header = NoHeader
    /\ request = NoRequest
    /\ wire = << >>
    /\ response = NoResponse
    /\ response_body = << >>
    /\ parsed = Unset
    /\ stdout = << >>
    /\ stderr = << >>
    /\ exit_status = << >>

\* lines 25-28
ValidateEnvironment ==
    /\ pc = "validate"
    /\ IF missing(environ) # << >>
       THEN PrintErrAndExit(Line("Missing required environment variables: ",
                                 Join(", ", missing(environ))))
       ELSE /\ pc' = "encode_secret"
            /\ UNCHANGED << stdout, stderr, exit_status >>
    /\ UNCHANGED << environ, SIGNING_SECRET, timestamp, payload, canonical_json,
                    digest, signature_header, request, wire, response,
                    response_body, parsed >>

\* line 31
EncodeSecret ==
    /\ pc = "encode_secret"
    /\ LET secret == Utf8Encode(environ["B12_SIGNING_SECRET"])
       IN  IF secret.ok
           THEN /\ SIGNING_SECRET' = secret.val
                /\ pc' = "build_payload"
                /\ UNCHANGED << stdout, stderr, exit_status >>
           ELSE /\ Uncaught(secret.val)
                /\ UNCHANGED SIGNING_SECRET
    /\ UNCHANGED << environ, timestamp, payload, canonical_json, digest,
                    signature_header, request, wire, response, response_body,
                    parsed >>

\* lines 36-52
BuildPayload ==
    /\ pc = "build_payload"
    /\ \E now \in Instants :
          /\ timestamp' = Replace(IsoFormat(now), UTC_OFFSET, ZULU)
          /\ payload' = << << KEY_TIMESTAMP, timestamp' >>,
                           << KEY_NAME, NAME >>,
                           << KEY_EMAIL, EMAIL >>,
                           << KEY_RESUME_LINK, RESUME_LINK >>,
                           << KEY_REPOSITORY_LINK, REPOSITORY_LINK >>,
                           << KEY_ACTION_RUN_LINK, environ["GITHUB_RUN_URL"] >> >>
    /\ pc' = "canonicalize"
    /\ UNCHANGED << environ, SIGNING_SECRET, canonical_json, digest,
                    signature_header, request, wire, response, response_body,
                    parsed, stdout, stderr, exit_status >>

\* lines 57-62
Canonicalize ==
    /\ pc = "canonicalize"
    /\ canonical_json' = JsonDumps(payload, << 44 >>, << 58 >>, TRUE)
    /\ pc' = "sign"
    /\ UNCHANGED << environ, SIGNING_SECRET, timestamp, payload, digest,
                    signature_header, request, wire, response, response_body,
                    parsed, stdout, stderr, exit_status >>

\* lines 67-73
Sign ==
    /\ pc = "sign"
    /\ LET message == Utf8Encode(canonical_json)
       IN  IF message.ok
           THEN /\ digest' = HmacSha256Hex(SIGNING_SECRET, message.val)
                /\ signature_header' = [prefix |-> "sha256=", digest |-> digest']
                /\ pc' = "build_request"
                /\ UNCHANGED << stdout, stderr, exit_status >>
           ELSE /\ Uncaught(message.val)
                /\ UNCHANGED << digest, signature_header >>
    /\ UNCHANGED << environ, SIGNING_SECRET, timestamp, payload, canonical_json,
                    request, wire, response, response_body, parsed >>

\* the Request object of lines 78-86 with the given body
Request(data) ==
    [url     |-> B12_ENDPOINT,
     data    |-> data,
     headers |-> ("Content-Type" :> "application/json")
                 @@ ("X-Signature-256" :> signature_header),
     method  |-> "POST"]

\* lines 78-86 (first a faulty variant that serializes the payload again for
\* the body, with json.dumps's default separators)
BuildRequest_reserialized ==
    /\ pc = "build_request"
    /\ LET body == Utf8Encode(JsonDumps(payload, << 44, 32 >>, << 58, 32 >>, TRUE))
       IN  IF body.ok
           THEN /\ request' = Request(body.val)
                /\ pc' = "urlopen"
                /\ UNCHANGED << stdout, stderr, exit_status >>
           ELSE /\ Uncaught(body.val)
                /\ UNCHANGED request
    /\ UNCHANGED << environ, SIGNING_SECRET, timestamp, payload, canonical_json,
                    digest, signature_header, wire, response, response_body,
                    parsed >>

BuildRequest ==
    /\ pc = "build_request"
    /\ LET body == Utf8Encode(canonical_json)
       IN  IF body.ok
           THEN /\ request' = Request(body.val)
                /\ pc' = "urlopen"
                /\ UNCHANGED << stdout, stderr, exit_status >>
           ELSE /\ Uncaught(body.val)
                /\ UNCHANGED request
    /\ UNCHANGED << environ, SIGNING_SECRET, timestamp, payload, canonical_json,
                    digest, signature_header, wire, response, response_body,
                    parsed >>

\* line 89, the call: urlopen hands the request to the network and blocks
Urlopen ==
    /\ pc = "urlopen"
    /\ wire' = Append(wire, request)
    /\ pc' = "awaiting"
    /\ UNCHANGED << environ, SIGNING_SECRET, timestamp, payload, canonical_json,
                    digest, signature_header, request, response, response_body,
                    parsed, stdout, stderr, exit_status >>

\* lines 89-90 and 94-96: urlopen returns a response; its body is read and
\* decoded inside the try, so a body that is not UTF-8 lands in the handler
\* of Exception
Response2xx ==
    /\ pc = "awaiting"
    /\ \E code \in SuccessStatuses, body \in ResponseBodies :
          /\ response' = [kind |-> "response", code |-> code, body |-> body,
                          reason |-> ""]
          /\ LET text == Utf8Decode(body)
             IN  IF text.ok
                 THEN /\ response_body' = text.val
                      /\ pc' = "parse"
                      /\ UNCHANGED << stdout, stderr, exit_status >>
                 ELSE /\ PrintErrAndExit(Line("Request failed:",
                                              << "'utf-8' codec can't decode" >>))
                      /\ UNCHANGED response_body
    /\ UNCHANGED << environ, SIGNING_SECRET, timestamp, payload, canonical_json,
                    digest, signature_header, request, wire, parsed >>

\* a faulty variant of lines 91-93: the handler goes back to waiting for a
\* response instead of reporting and exiting
HTTPErrorResponse_waits_again ==
    /\ pc = "awaiting"
    /\ \E code \in ErrorStatuses, body \in ErrorBodies :
          response' = [kind |-> "HTTPError", code |-> code, body |-> body,
                       reason |-> ""]
    /\ UNCHANGED << pc, environ, SIGNING_SECRET, timestamp, payload,
                    canonical_json, digest, signature_header, request, wire,
                    response_body, parsed, stdout, stderr, exit_status >>

\* lines 91-93: urlopen raises HTTPError for a status outside 2xx; decoding
\* the error body happens inside the handler, where nothing catches
HTTPErrorResponse ==
    /\ pc = "awaiting"
    /\ \E code \in ErrorStatuses, body \in ErrorBodies :
          /\ response' = [kind |-> "HTTPError", code |-> code, body |-> body,
                          reason |-> ""]
          /\ LET text == Utf8Decode(body)
             IN  IF text.ok
                 THEN PrintErrAndExit(Line("HTTP error:", << code, text.val >>))
                 ELSE Uncaught(text.val)
    /\ UNCHANGED << environ, SIGNING_SECRET, timestamp, payload, canonical_json,
                    digest, signature_header, request, wire, response_body,
                    parsed >>

\* a faulty variant of lines 94-96: the handler calls urlopen again (once)
TransportFailure_retry ==
    /\ pc = "awaiting"
    /\ \E reason \in TransportErrors :
          /\ response' = [kind |-> "error", code |-> 0, body |-> << >>,
                          reason |-> reason]
          /\ IF Len(wire) < 2
             THEN /\ pc' = "urlopen"
                  /\ UNCHANGED << stdout, stderr, exit_status >>
             ELSE PrintErrAndExit(Line("Request failed:", << reason >>))
    /\ UNCHANGED << environ, SIGNING_SECRET, timestamp, payload, canonical_json,
                    digest, signature_header, request, wire, response_body,
                    parsed >>

\* lines 94-96: urlopen or read raises any other exception (DNS, connection,
\* timeout)
TransportFailure ==
    /\ pc = "awaiting"
    /\ \E reason \in TransportErrors :
          /\ response' = [kind |-> "error", code |-> 0, body |-> << >>,
                          reason |-> reason]
          /\ PrintErrAndExit(Line("Request failed:", << reason >>))
    /\ UNCHANGED << environ, SIGNING_SECRET, timestamp, payload, canonical_json,
                    digest, signature_header, request, wire, response_body,
                    parsed >>

\* a faulty variant of lines 101-105: print without file=sys.stderr
ParseResponse_prints_to_stdout ==
    /\ pc = "parse"
    /\ LET result == JsonLoads(response_body)
       IN  IF result.ok
           THEN /\ parsed' = result.val
                /\ pc' = "output"
                /\ UNCHANGED << stdout, stderr, exit_status >>
           ELSE /\ stdout' = Append(stdout, Line("Invalid JSON response:",
                                                 << response_body >>))
                /\ exit_status' = << 1 >>
                /\ pc' = "Failed"
                /\ UNCHANGED << parsed, stderr >>
    /\ UNCHANGED << environ, SIGNING_SECRET, timestamp, payload, canonical_json,
                    digest, signature_header, request, wire, response,
                    response_body >>

\* lines 101-105
ParseResponse ==
    /\ pc = "parse"
    /\ LET result == JsonLoads(response_body)
       IN  IF result.ok
           THEN /\ parsed' = result.val
                /\ pc' = "output"
                /\ UNCHANGED << stdout, stderr, exit_status >>
           ELSE /\ PrintErrAndExit(Line("Invalid JSON response:",
                                        << response_body >>))
                /\ UNCHANGED parsed
    /\ UNCHANGED << environ, SIGNING_SECRET, timestamp, payload, canonical_json,
                    digest, signature_header, request, wire, response,
                    response_body >>

\* lines 110-114: parsed.get exists on a dict alone, so any other value
\* raises AttributeError, which nothing catches; falling off the end of the
\* script exits 0
SuccessOutput ==
    /\ pc = "output"
    /\ IF parsed.t # "dict" THEN Uncaught("AttributeError")
       ELSE IF SuccessCondition(parsed)
            THEN /\ stdout' = Append(stdout, Line("Submission receipt:",
                                                  << DictGet(parsed, KEY_RECEIPT) >>))
                 /\ exit_status' = << 0 >>
                 /\ pc' = "Succeeded"
                 /\ UNCHANGED stderr
       ELSE PrintErrAndExit(Line("Unexpected response:", << parsed >>))
    /\ UNCHANGED << environ, SIGNING_SECRET, timestamp, payload, canonical_json,
                    digest, signature_header, request, wire, response,
                    response_body, parsed >>

\* the statements of the script, which run one after another without waiting
ProgramStep ==
    \/ ValidateEnvironment
    \/ EncodeSecret
    \/ BuildPayload
    \/ Canonicalize
    \/ Sign
    \/ BuildRequest
    \/ Urlopen
    \/ ParseResponse
    \/ SuccessOutput

\* the ways the one network exchange ends
Exchange ==
    \/ Response2xx
    \/ HTTPErrorResponse
    \/ TransportFailure

Next == ProgramStep \/ Exchange

Spec == Init /\ [][Next]_vars

\* the interpreter runs the next statement when there is one, and the
\* exchange is assumed to end (by a response, an error or a timeout)
LiveSpec == Init /\ [][Next]_vars /\ WF_vars(ProgramStep) /\ WF_vars(Exchange)

----------------------------------------------------------------------------
(* Vocabulary of the properties.                                           *)

Terminated == pc \in {"Succeeded", "Failed"}

\* the states of the program's state machine, in order, and the one each
\* section of the script belongs to
Phase ==
    CASE pc = "validate" -> "Validating"
      [] pc \in {"encode_secret", "build_payload", "canonicalize"} -> "Building"
      [] pc = "sign" -> "Signing"
      [] pc \in {"build_request", "urlopen"} -> "Sending"
      [] pc \in {"awaiting", "parse", "output"} -> "Awaiting Response"
      [] OTHER -> pc

PhaseRank(phase) ==
    CASE phase = "Validating" -> 1
      [] phase = "Building" -> 2
      [] phase = "Signing" -> 3
      [] phase = "Sending" -> 4
      [] phase = "Awaiting Response" -> 5
      [] OTHER -> 6

\* the position of a section in the script
Position(section) ==
    CASE section = "validate" -> 1
      [] section = "encode_secret" -> 2
      [] section = "build_payload" -> 3
      [] section = "canonicalize" -> 4
      [] section = "sign" -> 5
      [] section = "build_request" -> 6
      [] section = "urlopen" -> 7
      [] section = "awaiting" -> 8
      [] section = "parse" -> 9
      [] section = "output" -> 10
      [] OTHER -> 11

\* the stream holds exactly one line, printed with this leading literal
OneLine(stream, label) == Len(stream) = 1 /\ stream[1].label = label

\* v is the object True
IsTrue(v) == v.t = "bool" /\ v.v = TRUE

\* bool(v), Python's truth value of a value json.loads builds (a number is
\* false when its digits before any exponent are all zero)
Truthy(v) ==
    CASE v.t = "bool" -> v.v
      [] v.t = "NoneType" -> FALSE
      [] v.t = "float" -> TRUE
      [] v.t = "number" ->
            \E i \in 1..Len(v.v) :
               /\ v.v[i] >= 49 /\ v.v[i] <= 57
               /\ \A j \in 1..i : v.v[j] \notin {101, 69}
      [] OTHER -> Len(v.v) > 0

\* the bytes of a 2xx body decode and parse
BodyParses(body) == Utf8Decode(body).ok /\ JsonLoads(Utf8Decode(body).val).ok

RequiredNames == {required_env_vars[i] : i \in 1..Len(required_env_vars)}

----------------------------------------------------------------------------
(* C1.                                                                     *)

----------------------------------------------------------------------------
(* C2.                                                                     *)

\* C2 as stated: every parsed 2xx body that does not meet the success
\* condition, whatever JSON value it is, ends the run non-zero with the
\* parsed structure printed on the error stream.
C2_UnexpectedShapeReported ==
    (/\ Terminated
     /\ response.kind = "response"
     /\ parsed # Unset
     /\ ~(/\ parsed.t = "dict"
          /\ Truthy(DictGet(parsed, KEY_SUCCESS))
          /\ DictHas(parsed, KEY_RECEIPT)))
    => /\ OneLine(stderr, "Unexpected response:")
       /\ stderr[1].args = << parsed >>
       /\ exit_status = << 1 >>

----------------------------------------------------------------------------
(* C3.                                                                     *)

\* C3: a run exits exactly once it has ended; a run that ends through
\* missing configuration, a transport failure, a non-2xx response, an
\* unparseable body or an unexpected shape exits non-zero; and a run that
\* exits 0 received a 2xx response whose parsed body has success and receipt.
C3_ExitZeroOnlyOnConfirmedSuccess ==
    /\ ~Terminated => exit_status = << >>
    /\ Terminated => exit_status \in {<< 0 >>, << 1 >>}
    /\ (/\ Terminated
        /\ \/ \E name \in RequiredNames : name \notin DOMAIN environ
           \/ response.kind \in {"none", "error", "HTTPError"}
           \/ response.kind = "response" /\ ~BodyParses(response.body)
           \/ parsed.t # "dict"
           \/ ~DictHas(parsed, KEY_SUCCESS)
           \/ ~DictHas(parsed, KEY_RECEIPT))
       => exit_status = << 1 >>
    /\ exit_status = << 0 >>
       => /\ response.kind = "response"
          /\ response.code >= 200 /\ response.code <= 299
          /\ Ok(parsed) = JsonLoads(Utf8Decode(response.body).val)
          /\ DictHas(parsed, KEY_SUCCESS)
          /\ DictHas(parsed, KEY_RECEIPT)

C3_Witness ==
    /\ pc = "Failed"
    /\ response.kind = "HTTPError"
    /\ response.code = 500
    /\ exit_status = << 1 >>

----------------------------------------------------------------------------
(* C4.                                                                     *)

\* C4: once validation has run with a required name absent, the run has
\* ended non-zero with one report that names every absent name and no
\* present one, and nothing has been built, signed or sent; with both
\* names present, validation reports nothing.
C4_MissingEnvironmentReported ==
    pc # "validate" =>
       IF \E name \in RequiredNames : name \notin DOMAIN environ
       THEN /\ pc = "Failed"
            /\ OneLine(stderr, "Missing required environment variables: ")
            /\ \A name \in RequiredNames :
                  name \notin DOMAIN environ
                  <=> \E i \in 1..Len(stderr[1].args) : stderr[1].args[i] = name
            /\ exit_status = << 1 >>
            /\ stdout = << >>
            /\ payload = << >> /\ canonical_json = << >>
            /\ digest = NoDigest /\ signature_header = NoHeader
            /\ request.method = "" /\ wire = << >>
       ELSE \A i \in 1..Len(stderr) :
               stderr[i].label # "Missing required environment variables: "

C4_Witness ==
    /\ pc = "Failed"
    /\ DOMAIN environ = {}
    /\ stderr = << Line("Missing required environment variables: ",
                        << "B12_SIGNING_SECRET", ", ", "GITHUB_RUN_URL" >>) >>

----------------------------------------------------------------------------
(* C5.                                                                     *)

\* C5: every request put on the network carries as its body exactly the
\* bytes the digest in its X-Signature-256 header was computed over, and
\* those are the UTF-8 bytes of the canonical serialization of the payload
\* as it stands.
C5_SignedBytesAreSentBytes ==
    \A i \in 1..Len(wire) :
       /\ wire[i].headers["X-Signature-256"].digest.alg = "sha256"
       /\ wire[i].headers["X-Signature-256"].digest.msg = wire[i].data
       /\ wire[i].headers["X-Signature-256"].digest.key = SIGNING_SECRET
       /\ Ok(wire[i].data)
          = Utf8Encode(JsonDumps(payload, << 44 >>, << 58 >>, TRUE))
       /\ request = wire[i]

C5_Witness ==
    /\ Len(wire) = 1
    /\ environ["GITHUB_RUN_URL"] = << 233 >>
    /\ Len(wire[1].data) = Len(canonical_json) + 1

----------------------------------------------------------------------------
(* C6.                                                                     *)

\* C6: every step moves the script to a later section, never to an earlier
\* state of Validating, Building, Signing, Sending, Awaiting Response,
\* Succeeded or Failed, and none leaves Succeeded or Failed; a step that
\* reports an error ends in Failed; and at most one request is ever put on
\* the network.
C6_ForwardOnlySingleRequest ==
    [][/\ Position(pc') > Position(pc)
       /\ PhaseRank(Phase') >= PhaseRank(Phase)
       /\ ~Terminated
       /\ Len(stderr') > Len(stderr) => pc' = "Failed"
       /\ pc' = "Failed" => Len(stderr') > Len(stderr)
       /\ Len(wire') <= 1]_vars

C6_Witness ==
    /\ pc = "Failed"
    /\ response.kind = "error"
    /\ Len(wire) = 1
    /\ OneLine(stderr, "Request failed:")

----------------------------------------------------------------------------
(* C7.                                                                     *)

\* C7 as stated: a run that got a non-2xx response has ended non-zero with
\* one report of the status code and the response body, and has parsed
\* nothing; a run whose exchange failed in transport has ended non-zero
\* with one report of the error's message.
C7_Non2xxReportedWithStatusAndBody ==
    /\ (Terminated /\ response.kind = "HTTPError")
       => /\ OneLine(stderr, "HTTP error:")
          /\ stderr[1].args[1] = response.code
          /\ Utf8Encode(stderr[1].args[2]) = Ok(response.body)
          /\ exit_status = << 1 >>
          /\ parsed = Unset
    /\ (Terminated /\ response.kind = "error")
       => /\ OneLine(stderr, "Request failed:")
          /\ stderr[1].args = << response.reason >>
          /\ exit_status = << 1 >>

----------------------------------------------------------------------------
(* C8.                                                                     *)

\* C8 as stated: a run that got a 2xx response whose body does not parse
\* (undecodable bytes and the empty body included) has ended non-zero with
\* one report, the response-format error, that prints the raw body.
C8_UnparseableBodyReportedRaw ==
    (/\ Terminated
     /\ response.kind = "response"
     /\ ~BodyParses(response.body))
    => /\ OneLine(stderr, "Invalid JSON response:")
       /\ Utf8Encode(stderr[1].args[1]) = Ok(response.body)
       /\ exit_status = << 1 >>

----------------------------------------------------------------------------
(* C9.                                                                     *)

\* C9: nothing is printed before the run ends; a run that exits 0 has
\* printed the receipt line on standard output and nothing on the error
\* stream; a run that exits non-zero has printed one line on the error
\* stream and nothing on standard output.
C9_OutputChannelsFollowOutcome ==
    /\ ~Terminated => stdout = << >> /\ stderr = << >>
    /\ (Terminated /\ exit_status = << 0 >>)
       => OneLine(stdout, "Submission receipt:") /\ stderr = << >>
    /\ (Terminated /\ exit_status # << 0 >>)
       => Len(stderr) = 1 /\ stdout = << >>

C9_Witness ==
    /\ pc = "Failed"
    /\ response.kind = "response"
    /\ OneLine(stderr, "Invalid JSON response:")
    /\ stderr[1].args = << << >> >>

----------------------------------------------------------------------------
(* C10.                                                                    *)

\* C10: when the exchange is sure to end, every run eventually stays in
\* Succeeded or Failed for good; no step is taken from either; and while
\* the run has neither ended nor is waiting for the exchange, the script's
\* next statement can always run.
C10_Terminates ==
    /\ <>[]Terminated
    /\ [][~Terminated]_vars
    /\ []((~Terminated /\ pc # "awaiting") => ENABLED ProgramStep)

C10_Witness ==
    /\ Terminated
    /\ Len(wire) = 1
    /\ response.kind = "response"
    /\ response.code = 201

====
